---- MODULE Spec2Model ----
(***************************************************************************)
(* Token-level Aho-Corasick finder: tokenizers (word_split_trait.rs and    *)
(* the unicode_words call of nfa.rs), the NFA compiler (nfa.rs), the       *)
(* overlapping search (automaton.rs), the offset remap (ahocorasick.rs)    *)
(* and the SimpleFinder facade (lib.rs).                                   *)
(*                                                                         *)
(* A string is a sequence of one-character strings; a token is a string.   *)
(* State ids are the indices of the Rust states vector (0 = fail sentinel, *)
(* 1 = start), so state id i is element i + 1 of the sequence `states`.    *)
(***************************************************************************)
EXTENDS Integers, Sequences, FiniteSets, TLC

\* ------------------------------------------------------------------------
\* Bounds of the generated inputs.
MaxPatterns == 2
MaxPatWords == 2
MaxHayLen == 3
MaxSpin == 2
MaxCalls == 1
MaxStateId == 3
MaxSharedHayLen == 1

\* TLC's integers are 32-bit, so the two machine widths are scaled down and
\* keep their order: u32 wraps at U32Mod, usize at UsizeMod.
U32Mod == 2^16
UsizeMod == 2^30

\* ------------------------------------------------------------------------
\* Characters.
Letters == {"a", "b", "c", "d", "e", "f", "o", "r", "z", "l"}
Chars == {"a", "b", " ", ","}

\* Byte order of the characters (str comparison in binary_search_by_key).
Code(c) ==
    CASE c = " " -> 32
      [] c = "'" -> 39
      [] c = "," -> 44
      [] c = "." -> 46
      [] c = "@" -> 64
      [] c = "_" -> 95
      [] c = "a" -> 97
      [] c = "b" -> 98
      [] c = "c" -> 99
      [] c = "d" -> 100
      [] c = "e" -> 101
      [] c = "f" -> 102
      [] c = "l" -> 108
      [] c = "o" -> 111
      [] c = "r" -> 114
      [] c = "z" -> 122
      [] c = "é" -> 233

\* The word-character range table restricted to the characters in use.
PERL_WORD == Letters \cup {"_", "é"}

is_word_byte(c) == c \in Letters \cup {"_"}

is_word_character(c) == (Code(c) <= 127 /\ is_word_byte(c)) \/ c \in PERL_WORD

is_whitespace(c) == c = " "

\* ------------------------------------------------------------------------
\* Haystack tokenizer (word_split_trait.rs).

\* UnicodeWordBoundaries::next: the length of the first raw slice of the
\* non-empty string s: up to the first adjacent pair that differs in
\* word-ness or in whitespace-ness, else the whole of s.
\* FirstBoundary comparing the word-ness of the pair only.
RECURSIVE FirstBoundary_word_only(_, _)
FirstBoundary_word_only(s, i) ==
    IF i >= Len(s) THEN Len(s)
    ELSE IF is_word_character(s[i]) # is_word_character(s[i + 1])
         THEN i
         ELSE FirstBoundary_word_only(s, i + 1)

RECURSIVE FirstBoundary(_, _)
FirstBoundary(s, i) ==
    IF i >= Len(s) THEN Len(s)
    ELSE IF (is_word_character(s[i]) # is_word_character(s[i + 1]))
            \/ (is_whitespace(s[i]) # is_whitespace(s[i + 1]))
         THEN i
         ELSE FirstBoundary(s, i + 1)

UnicodeWordBoundaries_next(s) == FirstBoundary(s, 1)

\* The UTF-8 length of a character: one byte up to U+007F, two up to U+07FF.
Utf8Len(c) == IF Code(c) <= 127 THEN 1 ELSE 2

\* str::len: the length of s in bytes.
RECURSIVE str_len(_)
str_len(s) == IF s = <<>> THEN 0 ELSE Utf8Len(Head(s)) + str_len(Tail(s))

\* str::chars().count(): the length of s in code points.
chars_count(s) == Len(s)

RECURSIVE trim_start(_)
trim_start(s) ==
    IF s # <<>> /\ is_whitespace(Head(s)) THEN trim_start(Tail(s)) ELSE s

RECURSIVE trim_end(_)
trim_end(s) ==
    IF s # <<>> /\ is_whitespace(s[Len(s)])
    THEN trim_end(SubSeq(s, 1, Len(s) - 1))
    ELSE s

\* The closure `trim` of unicode_words_and_syms_indices: keeps idx correct.
trim_idx(idx, s) ==
    LET new_s == trim_start(s)
        removed_chars == chars_count(s) - chars_count(new_s)
    IN  <<idx + removed_chars, trim_end(new_s)>>

\* words_and_syms_from without the filter(is_not_empty): the trimmed
\* whitespace slices stay as empty tokens.
RECURSIVE words_and_syms_from_unfiltered(_, _)
words_and_syms_from_unfiltered(s, current_offset) ==
    IF s = <<>> THEN <<>>
    ELSE LET n == UnicodeWordBoundaries_next(s)
             next == SubSeq(s, 1, n)
             rest == SubSeq(s, n + 1, Len(s))
             item == trim_idx(current_offset, next)
         IN  <<item>> \o words_and_syms_from_unfiltered(rest, current_offset + chars_count(next))

\* UnicodeWordsAndSymsIndicesInner + map(trim) + filter(is_not_empty):
\* the (char offset, token) pairs of s, current_offset being the number of
\* code points already consumed.
RECURSIVE words_and_syms_from(_, _)
words_and_syms_from(s, current_offset) ==
    IF s = <<>> THEN <<>>
    ELSE LET n == UnicodeWordBoundaries_next(s)
             next == SubSeq(s, 1, n)
             rest == SubSeq(s, n + 1, Len(s))
             item == trim_idx(current_offset, next)
             more == words_and_syms_from(rest, current_offset + chars_count(next))
         IN  IF item[2] # <<>> THEN <<item>> \o more ELSE more

unicode_words_and_syms_indices(s) == words_and_syms_from(s, 0)

\* words_and_syms_plain without the map(str::trim): whitespace slices stay.
RECURSIVE words_and_syms_plain_untrimmed(_)
words_and_syms_plain_untrimmed(s) ==
    IF s = <<>> THEN <<>>
    ELSE LET n == UnicodeWordBoundaries_next(s)
         IN  <<SubSeq(s, 1, n)>> \o words_and_syms_plain_untrimmed(SubSeq(s, n + 1, Len(s)))

\* unicode_words_and_syms: map(str::trim) + filter(is_not_empty).
RECURSIVE words_and_syms_plain(_)
words_and_syms_plain(s) ==
    IF s = <<>> THEN <<>>
    ELSE LET n == UnicodeWordBoundaries_next(s)
             tok == trim_end(trim_start(SubSeq(s, 1, n)))
             more == words_and_syms_plain(SubSeq(s, n + 1, Len(s)))
         IN  IF tok # <<>> THEN <<tok>> \o more ELSE more

unicode_words_and_syms(s) == words_and_syms_plain(s)

\* ------------------------------------------------------------------------
\* Pattern tokenizer: Compiler::compile calls unicode_words of the
\* unicode-segmentation crate (UAX #29 word boundaries, keeping the
\* segments that hold an alphanumeric character).
WB_ALetter(c) == c \in Letters \cup {"é"}
WB_ExtendNumLet(c) == c = "_"
WB_MidNumLetQ(c) == c = "'"
WB_WSegSpace(c) == c = " "

\* No word boundary between s[i] and s[i+1] (rules WB3d, WB5, WB6, WB7,
\* WB13a, WB13b; every other pair breaks, WB999).
WB_NoBreak(s, i) ==
    LET l == s[i]
        r == s[i + 1]
    IN  \/ WB_WSegSpace(l) /\ WB_WSegSpace(r)
        \/ WB_ALetter(l) /\ WB_ALetter(r)
        \/ /\ WB_ALetter(l) /\ WB_MidNumLetQ(r)
           /\ i + 2 <= Len(s) /\ WB_ALetter(s[i + 2])
        \/ /\ WB_MidNumLetQ(l) /\ WB_ALetter(r)
           /\ i >= 2 /\ WB_ALetter(s[i - 1])
        \/ (WB_ALetter(l) \/ WB_ExtendNumLet(l)) /\ WB_ExtendNumLet(r)
        \/ WB_ExtendNumLet(l) /\ WB_ALetter(r)

has_alphanumeric(w) == \E i \in 1..Len(w) : w[i] \in Letters \cup {"é"}

\* The words of s from position `from`, the current segment starting at
\* `segStart`.
RECURSIVE unicode_words_from(_, _, _)
unicode_words_from(s, segStart, i) ==
    IF i > Len(s) THEN <<>>
    ELSE IF i < Len(s) /\ WB_NoBreak(s, i)
         THEN unicode_words_from(s, segStart, i + 1)
         ELSE LET w == SubSeq(s, segStart, i)
                  more == unicode_words_from(s, i + 1, i + 1)
              IN  IF has_alphanumeric(w) THEN <<w>> \o more ELSE more

unicode_words(s) == unicode_words_from(s, 1, 1)

\* ------------------------------------------------------------------------
\* State ids (state_id.rs).  SimpleFinder uses AhoCorasick<usize>.
fail_id == 0

\* The state-id width S the automaton is built with: FALSE is usize, the
\* width of SimpleFinder; TRUE a narrow width (u8, u16, ...) whose max_id is
\* scaled to MaxStateId.
VARIABLE narrow_ids

\* StateID::max_id of the width S.
max_id == IF narrow_ids THEN MaxStateId ELSE UsizeMod - 1

None == [some |-> FALSE]

Some(v) == [some |-> TRUE, val |-> v]

\* usize_to_state_id refusing the largest id as well.
usize_to_state_id_strict(value) == IF value >= max_id THEN None ELSE Some(value)

usize_to_state_id(value) == IF value > max_id THEN None ELSE Some(value)

\* ------------------------------------------------------------------------
\* Transitions (nfa.rs): a list of <<token, id>> kept sorted by token.

\* Ordering of str: byte-wise lexicographic, a proper prefix first.
RECURSIVE str_lt(_, _)
str_lt(x, y) ==
    IF y = <<>> THEN FALSE
    ELSE IF x = <<>> THEN TRUE
    ELSE IF Code(Head(x)) # Code(Head(y)) THEN Code(Head(x)) < Code(Head(y))
    ELSE str_lt(Tail(x), Tail(y))

\* Transitions::next_state: linear scan, first hit, else fail_id.
RECURSIVE Transitions_next_state(_, _)
Transitions_next_state(trans, input) ==
    IF trans = <<>> THEN fail_id
    ELSE IF Head(trans)[1] = input THEN Head(trans)[2]
    ELSE Transitions_next_state(Tail(trans), input)

\* set_next_state pushing the pair at the end of the list.
Transitions_set_next_state_push(trans, input, next) == Append(trans, <<input, next>>)

\* Transitions::set_next_state: binary search by key over the sorted list;
\* Ok(i) overwrites, Err(i) inserts at the insertion point.
Transitions_set_next_state(trans, input, next) ==
    IF \E i \in 1..Len(trans) : trans[i][1] = input
    THEN LET i == CHOOSE j \in 1..Len(trans) : trans[j][1] = input
         IN  [trans EXCEPT ![i] = <<input, next>>]
    ELSE LET i == Cardinality({j \in 1..Len(trans) : str_lt(trans[j][1], input)})
         IN  SubSeq(trans, 1, i) \o <<<<input, next>>>> \o SubSeq(trans, i + 1, Len(trans))

\* ------------------------------------------------------------------------
\* NFA (nfa.rs).  `a` is the NFA record, a.states the states vector.
state(a, sid) == a.states[sid + 1]

State_next_state(a, sid, input) == Transitions_next_state(state(a, sid).trans, input)

is_valid(a, sid) == sid < Len(a.states)

match_count(a, sid) == Len(state(a, sid).matches)

\* get_match counting match_index from the end of the matches list.
get_match_reversed(a, sid, match_index, end) ==
    IF sid >= Len(a.states) THEN None
    ELSE IF match_index >= Len(a.states[sid + 1].matches) THEN None
    ELSE LET ms == a.states[sid + 1].matches
             m == ms[Len(ms) - match_index]
         IN  Some([pattern |-> m[1], len |-> m[2], end |-> end])

get_match(a, sid, match_index, end) ==
    IF sid >= Len(a.states) THEN None
    ELSE IF match_index >= Len(a.states[sid + 1].matches) THEN None
    ELSE LET m == a.states[sid + 1].matches[match_index + 1]
         IN  Some([pattern |-> m[1], len |-> m[2], end |-> end])

\* add_sparse_state with the failure link of the new state set to fail_id.
add_sparse_state_fail_sentinel(a) ==
    LET sid == usize_to_state_id(Len(a.states))
    IN  IF ~sid.some THEN [some |-> FALSE, nfa |-> a]
        ELSE [some |-> TRUE, val |-> sid.val,
              nfa |-> [a EXCEPT !.states =
                         Append(@, [trans |-> <<>>, fail |-> fail_id, matches |-> <<>>])]]

\* NFA::add_sparse_state: Option of the new id, with the NFA after the push.
add_sparse_state(a) ==
    LET sid == usize_to_state_id(Len(a.states))
    IN  IF ~sid.some THEN [some |-> FALSE, nfa |-> a]
        ELSE [some |-> TRUE, val |-> sid.val,
              nfa |-> [a EXCEPT !.states =
                         Append(@, [trans |-> <<>>, fail |-> a.start_id, matches |-> <<>>])]]

\* get_two_mut asserts src # dst; the copy appends src's matches to dst's.
copy_matches(a, src, dst) ==
    [a EXCEPT !.states[dst + 1].matches = @ \o a.states[src + 1].matches]

\* next_state_unchecked going back to the start state on a miss, without
\* following failure links.
next_state_unchecked_restart(a, current, input) ==
    LET next == State_next_state(a, current, input)
    IN  IF next # fail_id THEN next ELSE a.start_id

\* NFA::next_state_unchecked: follow failure links until a transition on
\* input exists; at the start state a miss loops back to the start state.
RECURSIVE next_state_unchecked(_, _, _)
next_state_unchecked(a, current, input) ==
    LET next == State_next_state(a, current, input)
    IN  IF next # fail_id THEN next
        ELSE IF current = a.start_id THEN a.start_id
        ELSE next_state_unchecked(a, state(a, current).fail, input)

\* ------------------------------------------------------------------------
\* Compiler (nfa.rs).

\* Compiler::new followed by the two add_state calls of compile.
Compiler_new ==
    LET a0 == [start_id |-> 1, max_pattern_len |-> 0, pattern_count |-> 0,
               states |-> <<>>]
        r0 == add_sparse_state(a0)
    IN  IF ~r0.some THEN r0 ELSE add_sparse_state(r0.nfa)

\* The token loop of build_trie for one pattern: Option of the final prev.
RECURSIVE build_trie_tokens(_, _, _)
build_trie_tokens(a, prev, pat) ==
    IF pat = <<>> THEN [some |-> TRUE, val |-> prev, nfa |-> a]
    ELSE LET b == Head(pat)
             next == State_next_state(a, prev, b)
         IN  IF next # fail_id THEN build_trie_tokens(a, next, Tail(pat))
             ELSE LET r == add_sparse_state(a)
                  IN  IF ~r.some THEN r
                      ELSE build_trie_tokens(
                             [r.nfa EXCEPT !.states[prev + 1].trans =
                                Transitions_set_next_state(@, b, r.val)],
                             r.val, Tail(pat))

\* build_trie logging each match under the pattern's 1-based position.
RECURSIVE build_trie_ids_from_one(_, _, _)
build_trie_ids_from_one(a, patterns, pati) ==
    IF pati >= Len(patterns) THEN [some |-> TRUE, nfa |-> a]
    ELSE LET pat == patterns[pati + 1]
             a1 == [a EXCEPT !.max_pattern_len = IF Len(pat) > @ THEN Len(pat) ELSE @,
                             !.pattern_count = @ + 1]
             r == build_trie_tokens(a1, a1.start_id, pat)
         IN  IF ~r.some THEN [some |-> FALSE, nfa |-> r.nfa]
             ELSE build_trie_ids_from_one(
                    [r.nfa EXCEPT !.states[r.val + 1].matches =
                       Append(@, <<pati + 1, Len(pat)>>)],
                    patterns, pati + 1)

\* build_trie over patterns[pati + 1 ..], pati the 0-based pattern index.
RECURSIVE build_trie(_, _, _)
build_trie(a, patterns, pati) ==
    IF pati >= Len(patterns) THEN [some |-> TRUE, nfa |-> a]
    ELSE LET pat == patterns[pati + 1]
             a1 == [a EXCEPT !.max_pattern_len = IF Len(pat) > @ THEN Len(pat) ELSE @,
                             !.pattern_count = @ + 1]
             r == build_trie_tokens(a1, a1.start_id, pat)
         IN  IF ~r.some THEN [some |-> FALSE, nfa |-> r.nfa]
             ELSE build_trie(
                    [r.nfa EXCEPT !.states[r.val + 1].matches = Append(@, <<pati, Len(pat)>>)],
                    patterns, pati + 1)

\* The tokenized patterns of compile.
PatternTokens(pats) == [i \in 1..Len(pats) |-> unicode_words(pats[i])]

\* The initial BFS queue of fill_failure_transitions_standard: the targets
\* of the start state's non-self transitions, then fail_id.
RECURSIVE start_targets(_, _)
start_targets(trans, start_id) ==
    IF trans = <<>> THEN <<>>
    ELSE (IF Head(trans)[2] # start_id THEN <<Head(trans)[2]>> ELSE <<>>)
         \o start_targets(Tail(trans), start_id)

\* The breadth first search seeded with the start state itself.
initial_queue_from_start(a) == <<a.start_id>>

initial_queue(a) == Append(start_targets(state(a, a.start_id).trans, a.start_id), fail_id)

\* ------------------------------------------------------------------------
\* Machine arithmetic.  An overflowing subtraction panics in a build with
\* overflow checks (debug, the build of `cargo test`) and wraps otherwise.
Panic == [ok |-> FALSE, val |-> 0]

Ok(v) == [ok |-> TRUE, val |-> v]

sub_wrapping(x, y, modulus, checks) ==
    IF x >= y THEN Ok(x - y)
    ELSE IF checks THEN Panic
    ELSE Ok(x - y + modulus)

sub_usize(x, y, checks) == sub_wrapping(x, y, UsizeMod, checks)

sub_u32(x, y, checks) == sub_wrapping(x, y, U32Mod, checks)

as_u32(x) == x % U32Mod

\* ------------------------------------------------------------------------
\* Match (lib.rs).
Match_start(m, checks) == sub_usize(m.end, m.len, checks)

Match_end(m) == m.end

Match_is_empty(m) == m.len = 0

\* ------------------------------------------------------------------------
\* Search (automaton.rs).

\* The loop of standard_find_at from 0-based token index i in state sid:
\* the state it stops in and the first match met, if any.
RECURSIVE standard_find_loop(_, _, _, _)
standard_find_loop(a, haystack, i, sid) ==
    IF i >= Len(haystack) THEN [state_id |-> sid, result |-> None]
    ELSE LET nxt == next_state_unchecked(a, sid, haystack[i + 1])
             m == get_match(a, nxt, 0, i + 1)
         IN  IF m.some THEN [state_id |-> nxt, result |-> m]
             ELSE standard_find_loop(a, haystack, i + 1, nxt)

\* standard_find_at: asserts the state id valid; haystack[at..] panics
\* when at is past the end.
standard_find_at(a, haystack, at, sid) ==
    IF ~is_valid(a, sid) \/ at > Len(haystack)
    THEN [panic |-> TRUE, state_id |-> sid, result |-> None]
    ELSE [panic |-> FALSE] @@ standard_find_loop(a, haystack, at, sid)

\* overlapping_find_at: the next match of the current state, else a scan.
overlapping_find_at(a, haystack, at, sid, match_index) ==
    IF match_index < match_count(a, sid)
    THEN [panic |-> FALSE, state_id |-> sid, match_index |-> match_index + 1,
          result |-> get_match(a, sid, match_index, at)]
    ELSE LET r == standard_find_at(a, haystack, at, sid)
         IN  [panic |-> r.panic, state_id |-> r.state_id,
              match_index |-> IF r.result.some THEN 1 ELSE 0,
              result |-> r.result]

\* ------------------------------------------------------------------------
\* FindOverlappingIter (ahocorasick.rs).

\* FindOverlappingIter::new: tokens, the token index -> char index map with
\* its final entry chars().count() + 1, and the cursors.
FindOverlappingIter_new(a, haystack_str) ==
    LET input_len == chars_count(haystack_str) + 1
        items == unicode_words_and_syms_indices(haystack_str)
        n == Len(items)
    IN  [haystack |-> [i \in 1..n |-> items[i][2]],
         word_char_idx_map |->
            [k \in 0..n |-> IF k < n THEN items[k + 1][1] ELSE as_u32(input_len)],
         pos |-> 0,
         state_id |-> a.start_id,
         match_index |-> 0]

map_get(map, key) == IF key \in DOMAIN map THEN Some(map[key]) ELSE None

\* remap with the end taken as the map entry itself, without the "- 1" of
\* ahocorasick.rs:88.
remap_end_exclusive(map, m, checks) ==
    LET startTok == sub_usize(m.end, m.len, checks)
        start_idx == IF startTok.ok THEN map_get(map, as_u32(startTok.val)) ELSE None
        end_raw == map_get(map, as_u32(m.end))
        len == IF start_idx.some /\ end_raw.some
               THEN sub_u32(end_raw.val, start_idx.val, checks) ELSE Panic
    IN  IF ~startTok.ok THEN [kind |-> "panic"]
        ELSE IF ~start_idx.some THEN [kind |-> "none"]
        ELSE IF ~end_raw.some THEN [kind |-> "none"]
        ELSE IF ~len.ok THEN [kind |-> "panic"]
        ELSE [kind |-> "some",
              m |-> [pattern |-> m.pattern, len |-> len.val, end |-> end_raw.val]]

\* The Some(m) branch of FindOverlappingIter::next after self.pos is set:
\* token coordinates to char coordinates.  kind is "panic", "none" (a map
\* lookup missed and `?` returned) or "some".
remap(map, m, checks) ==
    LET startTok == sub_usize(m.end, m.len, checks)
        start_idx == IF startTok.ok THEN map_get(map, as_u32(startTok.val)) ELSE None
        end_raw == map_get(map, as_u32(m.end))
        end_idx == IF end_raw.some THEN sub_u32(end_raw.val, 1, checks) ELSE Panic
        len == IF start_idx.some /\ end_idx.ok
               THEN sub_u32(end_idx.val, start_idx.val, checks) ELSE Panic
    IN  IF ~startTok.ok THEN [kind |-> "panic"]
        ELSE IF ~start_idx.some THEN [kind |-> "none"]
        ELSE IF ~end_raw.some THEN [kind |-> "none"]
        ELSE IF ~end_idx.ok \/ ~len.ok THEN [kind |-> "panic"]
        ELSE [kind |-> "some",
              m |-> [pattern |-> m.pattern, len |-> len.val, end |-> end_idx.val]]

\* ------------------------------------------------------------------------
\* Inputs.

\* All strings over Chars of length at most n.
RECURSIVE StringsUpTo(_)
StringsUpTo(n) ==
    IF n = 0 THEN {<<>>}
    ELSE LET shorter == StringsUpTo(n - 1)
         IN  shorter \cup {Append(s, c) : s \in shorter, c \in Chars}

\* Phrases of at most n one-letter words joined by single spaces.
RECURSIVE PhrasesUpTo(_)
PhrasesUpTo(n) ==
    IF n = 0 THEN {<<>>}
    ELSE LET shorter == PhrasesUpTo(n - 1)
         IN  shorter \cup {<<w>> : w \in {"a", "b"}}
                     \cup {p \o <<" ", w>> : p \in shorter \ {<<>>}, w \in {"a", "b"}}

PatternStrings == PhrasesUpTo(MaxPatWords)

RECURSIVE ListsUpTo(_, _)
ListsUpTo(S, n) ==
    IF n = 0 THEN {<<>>}
    ELSE LET shorter == ListsUpTo(S, n - 1)
         IN  shorter \cup {Append(l, x) : l \in shorter, x \in S}

RECURSIVE TotalWords(_)
TotalWords(ps) ==
    IF ps = <<>> THEN 0 ELSE Len(unicode_words(Head(ps))) + TotalWords(Tail(ps))

\* The generated pattern lists: at most MaxPatterns patterns holding at most
\* MaxPatWords words between them.
PatternLists ==
    {ps \in ListsUpTo(PatternStrings, MaxPatterns) : TotalWords(ps) <= MaxPatWords}

\* The data of the generated pattern lists.
DataFor(ps) == [i \in 1..Len(ps) |-> 100 + ((i - 1) % 2)]

\* lib.rs test_iguess / test_unique.
Str_foo == <<"f", "o", "o">>
Str_bar == <<"b", "a", "r">>
Str_baz == <<"b", "a", "z">>
Str_lol == <<"l", "o", "l">>
Sp == <<" ">>

Scenario_iguess ==
    [patterns |-> <<Str_foo, Str_bar, Str_baz, Str_bar \o Sp \o Str_baz>>,
     datas |-> <<123, 234, 345, 456>>,
     haystack |-> Str_foo \o Sp \o Str_bar \o Sp \o Str_baz \o Sp
                  \o Str_foo \o Str_bar \o Sp
                  \o Str_foo \o <<"'">> \o Str_bar \o Sp
                  \o Str_foo \o <<",">> \o Str_bar]

\* lib.rs test_loops.
Scenario_loops ==
    [patterns |-> <<Str_lol \o Sp \o Str_lol \o <<"_">>, Str_lol \o Sp \o Str_lol>>,
     datas |-> <<0, 2>>,
     haystack |-> Str_lol \o Sp \o Str_lol \o Sp \o Str_lol \o Sp \o Str_lol \o <<"_">>]

\* A single-token pattern followed by punctuation.
Scenario_punct ==
    [patterns |-> <<Str_foo>>,
     datas |-> <<1>>,
     haystack |-> Str_foo \o <<",">> \o Str_bar]

\* An empty pattern beside a pattern whose last token starts another one.
Scenario_empty ==
    [patterns |-> <<<<>>, <<"a">>, <<"b", " ", "a">>>>,
     datas |-> <<9, 1, 2>>,
     haystack |-> <<"b", " ", "a">>]

\* A pattern that is a prefix of another one.
Scenario_prefix ==
    [patterns |-> <<<<"a">>, <<"a", " ", "a">>>>,
     datas |-> <<7, 7>>,
     haystack |-> <<"a", " ", "a", " ", "a">>]

\* A pattern that is a suffix of another one.
Scenario_suffix ==
    [patterns |-> <<<<"a", " ", "b">>, <<"b">>>>,
     datas |-> <<5, 6>>,
     haystack |-> <<"b", " ", "a", " ", "b">>]

\* A pattern with punctuation between its words.
Scenario_split ==
    [patterns |-> <<<<"a", ",", "b">>, <<"b">>>>,
     datas |-> <<3, 4>>,
     haystack |-> <<"a", ",", "b">>]

\* A pattern of punctuation only.
Scenario_comma ==
    [patterns |-> <<<<",">>>>,
     datas |-> <<8>>,
     haystack |-> <<"a", ",">>]

\* A pattern given twice, its token ending a longer pattern.
Scenario_dup ==
    [patterns |-> <<<<"a">>, <<"a">>, <<"b", " ", "a">>>>,
     datas |-> <<11, 12, 13>>,
     haystack |-> <<"b", " ", "a">>]

\* The empty pattern given twice, beside a state of depth two.
Scenario_dup_empty ==
    [patterns |-> <<<<>>, <<>>, <<"a">>, <<"b", " ", "a">>>>,
     datas |-> <<21, 22, 23, 24>>,
     haystack |-> <<"b", " ", "a">>]

\* word_split_trait.rs check_boundary_splits.
Str_boundary ==
    <<"a", "a", "a", ".", "b", "b", "b", ",", "c", "c", "c", "'",
      "d", "d", "d", "@", "e", "e", "e">>

Scenario_boundary ==
    [patterns |-> <<<<"d", "d", "d">>>>,
     datas |-> <<31>>,
     haystack |-> Str_boundary]

\* A word with a two-byte character, twice in the haystack.
Str_cafe == <<"c", "a", "f", "é">>

Scenario_cafe ==
    [patterns |-> <<Str_cafe>>,
     datas |-> <<41>>,
     haystack |-> Str_cafe \o Sp \o Str_cafe]

\* A state of depth three whose failure walk takes two steps.
Scenario_deep ==
    [patterns |-> <<<<"a", " ", "b", " ", "a">>, <<"b">>>>,
     datas |-> <<51, 52>>,
     haystack |-> <<"a", " ", "b", " ", "a">>]

Scenarios == {Scenario_iguess, Scenario_loops, Scenario_punct, Scenario_empty,
              Scenario_prefix, Scenario_suffix, Scenario_split, Scenario_comma,
              Scenario_dup, Scenario_dup_empty, Scenario_boundary, Scenario_cafe,
              Scenario_deep}

Inputs ==
    {[patterns |-> ps, datas |-> DataFor(ps)] : ps \in PatternLists}
    \cup {[patterns |-> sc.patterns, datas |-> sc.datas] : sc \in Scenarios}

HaystacksFor(ps) ==
    StringsUpTo(MaxHayLen) \cup {sc.haystack : sc \in {x \in Scenarios : x.patterns = ps}}

\* ------------------------------------------------------------------------
\* State.
VARIABLES
    patterns,         \* the pattern strings given to SimpleFinder::new
    datas,            \* the data given with them
    overflow_checks,  \* whether the build checks integer overflow
    pc,               \* "new", "pop", "iter", "walk", "ready", "search",
                      \* "unique_done", or "panic" (construction) /
                      \* "search_panic" (next) / "unique_panic"
    nfa,              \* Compiler.nfa / AhoCorasick.imp
    data,             \* SimpleFinder.data: pattern id i at index i + 1
    queue,            \* the BFS queue of fill_failure_transitions_standard
    id,               \* the state popped from the queue
    cur,              \* IterTransitionsMut.cur
    fail,             \* the local `fail` of the failure walk
    spins,            \* iterations of the failure walk for the current child
    haystack_str,     \* the haystack given to find_all
    iter,             \* the FindOverlappingIter
    raw,              \* the token-coordinate matches behind `reported`
    reported,         \* the (Match, datum) items returned by next so far
    ret,              \* the last return of next: "start", "some", "none"
    calls,            \* calls of next after it first returned none
    unique,           \* the return of find_all_unique, once it has run
    readers           \* the two iterators reading one finder side by side

vars == <<patterns, datas, overflow_checks, narrow_ids, pc, nfa, data, queue, id, cur, fail,
          spins, haystack_str, iter, raw, reported, ret, calls, unique, readers>>

compileVars == <<nfa, queue, id, cur, fail, spins>>

searchVars == <<haystack_str, iter, raw, reported, ret, calls, unique, readers>>

inputVars == <<patterns, datas, overflow_checks, narrow_ids>>

NoNfa == [start_id |-> 1, max_pattern_len |-> 0, pattern_count |-> 0, states |-> <<>>]

NoIter == [haystack |-> <<>>, word_char_idx_map |-> <<>>, pos |-> 0,
           state_id |-> 0, match_index |-> 0]

NoUnique == [done |-> FALSE, panic |-> FALSE, set |-> {}]

\* A reader that has not called find_all yet.
NoReader == [on |-> FALSE, haystack_str |-> <<>>, iter |-> NoIter,
             reported |-> <<>>, ret |-> "start"]

\* The state before SimpleFinder::new, for the given choice of id width.
Start(narrow) ==
    /\ \E inp \in Inputs : patterns = inp.patterns /\ datas = inp.datas
    /\ overflow_checks \in BOOLEAN
    /\ narrow_ids = narrow
    /\ pc = "new"
    /\ nfa = NoNfa
    /\ data = <<>>
    /\ queue = <<>>
    /\ id = 0
    /\ cur = 0
    /\ fail = 0
    /\ spins = 0
    /\ haystack_str = <<>>
    /\ iter = NoIter
    /\ raw = <<>>
    /\ reported = <<>>
    /\ ret = "start"
    /\ calls = 0
    /\ unique = NoUnique
    /\ readers = [i \in 1..2 |-> NoReader]

Init == Start(FALSE)

\* The same program built over a narrow state-id width.
InitNarrow == Start(TRUE)

\* ------------------------------------------------------------------------
\* Construction.

\* SimpleFinder::new up to the start of the failure-link BFS: unzip,
\* Compiler::new, the two reserved states, tokenization, build_trie and the
\* initial queue.  A None from the compiler is unwrapped: panic.
SimpleFinder_new ==
    /\ pc = "new"
    /\ LET c == Compiler_new
           r == IF c.some THEN build_trie(c.nfa, PatternTokens(patterns), 0) ELSE c
       IN  IF r.some
           THEN /\ nfa' = r.nfa
                /\ queue' = initial_queue(r.nfa)
                /\ pc' = "pop"
           ELSE /\ nfa' = r.nfa
                /\ queue' = <<>>
                /\ pc' = "panic"
    /\ UNCHANGED <<id, cur, fail, spins, data>>
    /\ UNCHANGED inputVars
    /\ UNCHANGED searchVars

\* while let Some(id) = queue.pop_front(): a state is popped and its
\* transition iterator created.
queue_pop_front ==
    /\ pc = "pop"
    /\ queue # <<>>
    /\ id' = Head(queue)
    /\ queue' = Tail(queue)
    /\ cur' = 0
    /\ pc' = "iter"
    /\ UNCHANGED <<nfa, fail, spins, data>>
    /\ UNCHANGED inputVars
    /\ UNCHANGED searchVars

\* The queue is empty: fill_failure_transitions_standard returns, and
\* SimpleFinder::new zips 0..pattern_count with the data.
fill_done ==
    /\ pc = "pop"
    /\ queue = <<>>
    /\ data' = [i \in 1..(IF nfa.pattern_count < Len(datas)
                          THEN nfa.pattern_count ELSE Len(datas)) |-> datas[i]]
    /\ id' = 0
    /\ cur' = 0
    /\ fail' = 0
    /\ spins' = 0
    /\ pc' = "ready"
    /\ UNCHANGED <<nfa, queue>>
    /\ UNCHANGED inputVars
    /\ UNCHANGED searchVars

\* The transition the iterator last returned: <<b, next>>.
cur_transition == state(nfa, id).trans[cur]

\* it.next() returns Some((b, next)): next is queued and the walk starts
\* from the failure link of id.
it_next_some ==
    /\ pc = "iter"
    /\ cur < Len(state(nfa, id).trans)
    /\ cur' = cur + 1
    /\ queue' = Append(queue, state(nfa, id).trans[cur + 1][2])
    /\ fail' = state(nfa, id).fail
    /\ spins' = 0
    /\ pc' = "walk"
    /\ UNCHANGED <<nfa, id, data>>
    /\ UNCHANGED inputVars
    /\ UNCHANGED searchVars

\* it.next() returns None: copy_empty_matches(id), whose get_two_mut
\* panics when id is the start state.
it_next_none ==
    /\ pc = "iter"
    /\ cur >= Len(state(nfa, id).trans)
    /\ IF id = nfa.start_id
       THEN pc' = "panic" /\ nfa' = nfa
       ELSE pc' = "pop" /\ nfa' = copy_matches(nfa, nfa.start_id, id)
    /\ UNCHANGED <<queue, id, cur, fail, spins, data>>
    /\ UNCHANGED inputVars
    /\ UNCHANGED searchVars

\* One iteration of `while state(fail).next_state(b) == fail_id()`.
fail_walk ==
    /\ pc = "walk"
    /\ State_next_state(nfa, fail, cur_transition[1]) = fail_id
    /\ spins < MaxSpin
    /\ fail' = state(nfa, fail).fail
    /\ spins' = spins + 1
    /\ UNCHANGED <<pc, nfa, queue, id, cur, data>>
    /\ UNCHANGED inputVars
    /\ UNCHANGED searchVars

\* fail_found without the assignment of next's failure link.
fail_found_link_kept ==
    /\ pc = "walk"
    /\ State_next_state(nfa, fail, cur_transition[1]) # fail_id
    /\ LET f == State_next_state(nfa, fail, cur_transition[1])
           next == cur_transition[2]
       IN  IF f = next
           THEN pc' = "panic" /\ nfa' = nfa
           ELSE pc' = "iter" /\ nfa' = copy_matches(nfa, f, next)
    /\ fail' = 0
    /\ spins' = 0
    /\ UNCHANGED <<queue, id, cur, data>>
    /\ UNCHANGED inputVars
    /\ UNCHANGED searchVars

\* The walk found a transition on b: it becomes next's failure link and its
\* matches are copied to next (get_two_mut panics when they are one state).
fail_found ==
    /\ pc = "walk"
    /\ State_next_state(nfa, fail, cur_transition[1]) # fail_id
    /\ LET f == State_next_state(nfa, fail, cur_transition[1])
           next == cur_transition[2]
           a1 == [nfa EXCEPT !.states[next + 1].fail = f]
       IN  IF f = next
           THEN pc' = "panic" /\ nfa' = a1
           ELSE pc' = "iter" /\ nfa' = copy_matches(a1, f, next)
    /\ fail' = 0
    /\ spins' = 0
    /\ UNCHANGED <<queue, id, cur, data>>
    /\ UNCHANGED inputVars
    /\ UNCHANGED searchVars

\* ------------------------------------------------------------------------
\* Search.

\* SimpleFinder::find_all: a new iterator over the haystack.
find_all ==
    /\ pc = "ready"
    /\ \E h \in HaystacksFor(patterns) :
          /\ haystack_str' = h
          /\ iter' = FindOverlappingIter_new(nfa, h)
    /\ pc' = "search"
    /\ UNCHANGED <<raw, reported, ret, calls, unique, data, readers>>
    /\ UNCHANGED inputVars
    /\ UNCHANGED compileVars

\* SimpleFinderIter::next over FindOverlappingIter::next.
next ==
    /\ pc = "search"
    /\ ret # "none" \/ calls < MaxCalls
    /\ calls' = IF ret = "none" THEN calls + 1 ELSE calls
    /\ LET r == overlapping_find_at(nfa, iter.haystack, iter.pos,
                                    iter.state_id, iter.match_index)
           it1 == [iter EXCEPT !.state_id = r.state_id, !.match_index = r.match_index]
       IN  IF r.panic
           THEN /\ pc' = "search_panic"
                /\ UNCHANGED <<iter, raw, reported, ret>>
           ELSE IF ~r.result.some
           THEN /\ iter' = it1
                /\ ret' = "none"
                /\ UNCHANGED <<pc, raw, reported>>
           ELSE LET m == r.result.val
                    it2 == [it1 EXCEPT !.pos = Match_end(m)]
                    cm == remap(iter.word_char_idx_map, m, overflow_checks)
                IN  /\ iter' = it2
                    /\ IF cm.kind = "panic"
                       THEN pc' = "search_panic" /\ UNCHANGED <<raw, reported, ret>>
                       ELSE IF cm.kind = "none" \/ cm.m.pattern + 1 \notin DOMAIN data
                       THEN ret' = "none" /\ UNCHANGED <<pc, raw, reported>>
                       ELSE /\ ret' = "some"
                            /\ raw' = Append(raw, m)
                            /\ reported' = Append(reported,
                                 [pattern |-> cm.m.pattern, len |-> cm.m.len,
                                  end |-> cm.m.end, datum |-> data[cm.m.pattern + 1]])
                            /\ pc' = pc
    /\ UNCHANGED <<data, haystack_str, unique, readers>>
    /\ UNCHANGED inputVars
    /\ UNCHANGED compileVars

\* collect_data stopping after the first item.
collect_data_first(a, it, dat, checks) ==
    LET r == overlapping_find_at(a, it.haystack, it.pos, it.state_id, it.match_index)
    IN  IF r.panic THEN [panic |-> TRUE, set |-> {}]
        ELSE IF ~r.result.some THEN [panic |-> FALSE, set |-> {}]
        ELSE LET cm == remap(it.word_char_idx_map, r.result.val, checks)
             IN  IF cm.kind = "panic" THEN [panic |-> TRUE, set |-> {}]
                 ELSE IF cm.kind = "none" \/ cm.m.pattern + 1 \notin DOMAIN dat
                 THEN [panic |-> FALSE, set |-> {}]
                 ELSE [panic |-> FALSE, set |-> {dat[cm.m.pattern + 1]}]

\* The iteration of find_all_unique: SimpleFinderIter::next is called until
\* it returns None, the data of the items going into the set.
RECURSIVE collect_data(_, _, _, _)
collect_data(a, it, dat, checks) ==
    LET r == overlapping_find_at(a, it.haystack, it.pos, it.state_id, it.match_index)
    IN  IF r.panic THEN [panic |-> TRUE, set |-> {}]
        ELSE IF ~r.result.some THEN [panic |-> FALSE, set |-> {}]
        ELSE LET m == r.result.val
                 it2 == [it EXCEPT !.state_id = r.state_id,
                                   !.match_index = r.match_index,
                                   !.pos = Match_end(m)]
                 cm == remap(it.word_char_idx_map, m, checks)
             IN  IF cm.kind = "panic" THEN [panic |-> TRUE, set |-> {}]
                 ELSE IF cm.kind = "none" \/ cm.m.pattern + 1 \notin DOMAIN dat
                 THEN [panic |-> FALSE, set |-> {}]
                 ELSE LET rest == collect_data(a, it2, dat, checks)
                      IN  [panic |-> rest.panic,
                           set |-> {dat[cm.m.pattern + 1]} \cup rest.set]

\* SimpleFinder::find_all_unique: a new iterator over the haystack, collected
\* into a set.  It is called on a finder not yet searched, with any
\* haystack, or on the haystack of a search that has just been iterated to
\* its end.
find_all_unique ==
    /\ pc = "ready" \/ (pc = "search" /\ ret = "none" /\ calls = 0)
    /\ ~unique.done
    /\ \E h \in (IF pc = "ready" THEN HaystacksFor(patterns) ELSE {haystack_str}) :
          LET c == collect_data(nfa, FindOverlappingIter_new(nfa, h),
                                data, overflow_checks)
          IN  /\ haystack_str' = h
              /\ unique' = [done |-> TRUE, panic |-> c.panic, set |-> c.set]
              /\ pc' = IF c.panic THEN "unique_panic"
                       ELSE IF pc = "ready" THEN "unique_done" ELSE pc
    /\ UNCHANGED <<iter, raw, reported, ret, calls, data, readers>>
    /\ UNCHANGED inputVars
    /\ UNCHANGED compileVars

\* ------------------------------------------------------------------------
\* Two readers of one finder.

\* The haystacks the two readers search.
SharedHaystacks(ps) ==
    StringsUpTo(MaxSharedHayLen)
        \cup {sc.haystack : sc \in {x \in Scenarios : x.patterns = ps}}

\* One call of SimpleFinderIter::next on the iterator `it`: what it
\* returns ("some" with the item, "none", or "panic") and the iterator left.
SimpleFinderIter_next(a, it, dat, checks) ==
    LET r == overlapping_find_at(a, it.haystack, it.pos, it.state_id, it.match_index)
        it1 == [it EXCEPT !.state_id = r.state_id, !.match_index = r.match_index]
    IN  IF r.panic THEN [kind |-> "panic", iter |-> it]
        ELSE IF ~r.result.some THEN [kind |-> "none", iter |-> it1]
        ELSE LET m == r.result.val
                 it2 == [it1 EXCEPT !.pos = Match_end(m)]
                 cm == remap(it.word_char_idx_map, m, checks)
             IN  IF cm.kind = "panic" THEN [kind |-> "panic", iter |-> it2]
                 ELSE IF cm.kind = "none" \/ cm.m.pattern + 1 \notin DOMAIN dat
                 THEN [kind |-> "none", iter |-> it2]
                 ELSE [kind |-> "some", iter |-> it2,
                       item |-> [pattern |-> cm.m.pattern, len |-> cm.m.len,
                                 end |-> cm.m.end, datum |-> dat[cm.m.pattern + 1]]]

\* reader_state with the cursors of reader 1 used by every reader.
reader_cursor_shared(rs, i) ==
    [rs[i] EXCEPT !.iter = [@ EXCEPT !.pos = rs[1].iter.pos,
                                     !.state_id = rs[1].iter.state_id,
                                     !.match_index = rs[1].iter.match_index]]

\* The iterator a reader's next works on: its own FindOverlappingIter.
reader_state(rs, i) == rs[i]

\* Reader i calls find_all on the shared finder.
reader_find_all(i) ==
    /\ pc = "ready"
    /\ ~readers[i].on
    /\ \E h \in SharedHaystacks(patterns) :
          readers' = [readers EXCEPT ![i] =
                         [on |-> TRUE, haystack_str |-> h,
                          iter |-> FindOverlappingIter_new(nfa, h),
                          reported |-> <<>>, ret |-> "start"]]
    /\ UNCHANGED <<haystack_str, iter, raw, reported, ret, calls, unique, data, pc>>
    /\ UNCHANGED inputVars
    /\ UNCHANGED compileVars

\* Reader i calls next on its iterator, until its first none or its panic.
reader_next(i) ==
    /\ pc = "ready"
    /\ readers[i].on
    /\ readers[i].ret \in {"start", "some"}
    /\ LET me == reader_state(readers, i)
           n == SimpleFinderIter_next(nfa, me.iter, data, overflow_checks)
       IN  readers' = [readers EXCEPT ![i] =
                          [me EXCEPT !.iter = n.iter,
                                     !.ret = n.kind,
                                     !.reported = IF n.kind = "some"
                                                  THEN Append(@, n.item) ELSE @]]
    /\ UNCHANGED <<haystack_str, iter, raw, reported, ret, calls, unique, data, pc>>
    /\ UNCHANGED inputVars
    /\ UNCHANGED compileVars

Next ==
    \/ SimpleFinder_new
    \/ queue_pop_front
    \/ fill_done
    \/ it_next_some
    \/ it_next_none
    \/ fail_walk
    \/ fail_found
    \/ find_all
    \/ next
    \/ find_all_unique

Spec == Init /\ [][Next]_vars

SpecNarrow == InitNarrow /\ [][Next]_vars

\* The finders of the scenarios, each read by two iterators whose next
\* calls interleave in any order.
InitShared == Start(FALSE) /\ \E sc \in Scenarios : patterns = sc.patterns

NextShared ==
    \/ SimpleFinder_new
    \/ queue_pop_front
    \/ fill_done
    \/ it_next_some
    \/ it_next_none
    \/ fail_walk
    \/ fail_found
    \/ \E i \in 1..2 : reader_find_all(i)
    \/ \E i \in 1..2 : reader_next(i)

SpecShared == InitShared /\ [][NextShared]_vars

\* ------------------------------------------------------------------------
\* Vocabulary of the properties.

\* The token sequences the compiler derived from the patterns.
Toks == PatternTokens(patterns)

\* SimpleFinder::new has returned a finder.
Built == pc \in {"ready", "search", "search_panic", "unique_done", "unique_panic"}

\* The first none of the iteration: find_all has been iterated to exhaustion.
Exhausted == pc = "search" /\ ret = "none" /\ calls = 0

\* The tokens of hay ending at token-end e have q as a suffix.
EndsWith(hay, e, q) == Len(q) <= e /\ SubSeq(hay, e - Len(q) + 1, e) = q

\* The reported matches that came from pattern id pid at token-end e.
Emitted(pid, e) == {k \in 1..Len(raw) : raw[k].pattern = pid /\ raw[k].end = e}

\* The offset map of the current search.
Offsets == iter.word_char_idx_map

\* The (pattern_id, char_len, char_end) sequence reported so far.
ReportedTriples == [k \in 1..Len(reported) |->
                      <<reported[k].pattern, reported[k].len, reported[k].end>>]

\* ------------------------------------------------------------------------
\* C1: the failure-chain walk for a child on token t ends when it is at the
\* start state and the start state has no transition on t, the child's
\* failure link being then the start state (so construction terminates).
C1_WalkEndsAtStart ==
    [][(/\ pc = "walk"
        /\ fail = nfa.start_id
        /\ State_next_state(nfa, fail, cur_transition[1]) = fail_id)
       => (/\ pc' = "iter"
           /\ state(nfa', cur_transition[2]).fail = nfa.start_id)]_vars

\* C2: overlap completeness: once the search has ended, every pattern whose
\* tokens are a suffix of the haystack tokens ending at a token position has
\* a match emitted with that token-end.
C2_OverlapComplete ==
    (Exhausted \/ pc = "search_panic") =>
        \A q \in 1..Len(patterns) : \A e \in 1..Len(iter.haystack) :
            EndsWith(iter.haystack, e, Toks[q]) => Emitted(q - 1, e) # {}

\* C3: find_all reports each occurrence exactly once and nothing else: the
\* number of matches for (pattern, token-end) is 1 at an occurrence, else 0.
C3_ExactlyOnce ==
    Exhausted =>
        \A q \in 1..Len(patterns) : \A e \in 0..Len(iter.haystack) :
            Cardinality(Emitted(q - 1, e))
                = IF EndsWith(iter.haystack, e, Toks[q]) THEN 1 ELSE 0

\* C4: a string is split the same way as a pattern and as a haystack, so a
\* pattern with at least one token is found in the haystack equal to it.
C4_SameSplitting ==
    pc = "search" =>
        \A i \in 1..Len(patterns) :
            haystack_str = patterns[i] =>
                /\ iter.haystack = Toks[i]
                /\ (Exhausted /\ iter.haystack # <<>>) =>
                       \E k \in 1..Len(raw) : raw[k].pattern = i - 1

\* C5: for the patterns of test_loops construction completes (every
\* iteration of the failure walk moves up the chain) and the search of
\* "lol lol lol lol_" reports exactly (1,7,7), (1,7,11), (0,8,16).
C5_TestLoops ==
    /\ [][(patterns = Scenario_loops.patterns /\ pc = "walk" /\ pc' = "walk")
          => fail' # fail]_vars
    /\ []((/\ patterns = Scenario_loops.patterns
           /\ haystack_str = Scenario_loops.haystack
           /\ Exhausted)
          => ReportedTriples = <<<<1, 7, 7>>, <<1, 7, 11>>, <<0, 8, 16>>>>)

\* C6: for every reported match, start() = end - len is the offset at which
\* the first matched token begins, offsets[token_end - token_len].
C6_StartIsFirstTokenOffset ==
    \A k \in 1..Len(reported) :
        LET st == Match_start(reported[k], overflow_checks)
        IN  st.ok /\ st.val = Offsets[raw[k].end - raw[k].len]

\* C7 as stated: char_end = offsets[token_end - 1], the start of the last
\* matched token, and char_len = offsets[token_end - 1] - offsets[token_end
\* - token_len].
C7_EndIsLastTokenStart ==
    \A k \in 1..Len(reported) :
        raw[k].len >= 1 =>
            /\ reported[k].end = Offsets[raw[k].end - 1]
            /\ reported[k].len = Offsets[raw[k].end - 1] - Offsets[raw[k].end - raw[k].len]

\* C7 amended: char_end = offsets[token_end] - 1 and char_len = char_end -
\* offsets[token_end - token_len], in wrapping 32-bit unsigned arithmetic.
C7_EndIsNextOffsetMinusOne ==
    \A k \in 1..Len(reported) :
        /\ reported[k].end = (Offsets[raw[k].end] - 1) % U32Mod
        /\ reported[k].len = (reported[k].end - Offsets[raw[k].end - raw[k].len]) % U32Mod

\* A multi-token match has been reported ahead of the end of the haystack.
C7_Witness ==
    \E k \in 1..Len(reported) :
        /\ raw[k].len = 2
        /\ raw[k].end < Len(iter.haystack)
        /\ reported[k].len > 0

\* C8: a single-token pattern followed at once by a punctuation token is
\* reported from the token's first code point to just past its last one;
\* "foo" in "foo,bar" is reported once with start 0 and end 3.
C8_PunctFollowed ==
    /\ \A k \in 1..Len(reported) :
          (/\ raw[k].len = 1
           /\ raw[k].end < Len(iter.haystack)
           /\ Offsets[raw[k].end] = Offsets[raw[k].end - 1] + Len(iter.haystack[raw[k].end]))
          => /\ Match_start(reported[k], overflow_checks) = Ok(Offsets[raw[k].end - 1])
             /\ Match_end(reported[k]) = Offsets[raw[k].end]
    /\ (/\ patterns = Scenario_punct.patterns
        /\ haystack_str = Scenario_punct.haystack
        /\ Exhausted)
       => /\ Len(reported) = 1
          /\ Match_start(reported[1], overflow_checks) = Ok(0)
          /\ Match_end(reported[1]) = 3

\* C9: with a zero-token pattern in the set the search never panics, every
\* match of it has start() = end() and is_empty(), and it is reported at
\* every token-end 0..N.
C9_EmptyPattern ==
    \A q \in 1..Len(patterns) :
        Toks[q] = <<>> =>
            /\ pc # "search_panic"
            /\ \A k \in 1..Len(reported) :
                  reported[k].pattern = q - 1 =>
                      /\ Match_is_empty(reported[k])
                      /\ Match_start(reported[k], overflow_checks) = Ok(Match_end(reported[k]))
            /\ Exhausted => \A e \in 0..Len(iter.haystack) : Emitted(q - 1, e) # {}

\* C10: a reported match is empty only when some pattern has zero tokens;
\* every match of a pattern with a token has start() < end().
C10_EmptyOnlyForEmptyPattern ==
    \A k \in 1..Len(reported) :
        /\ Match_is_empty(reported[k]) => \E q \in 1..Len(patterns) : Toks[q] = <<>>
        /\ raw[k].len >= 1 =>
              LET st == Match_start(reported[k], overflow_checks)
              IN  st.ok /\ st.val < Match_end(reported[k])

\* C11: pattern-id bijection: every match that find_all returns carries a
\* pattern id in 0..k-1, the insertion index of a pattern of the match's
\* token length, and the datum given at that index; up to the first none
\* that pattern's tokens end at the match; pattern_count() = k whatever the
\* patterns tokenize to.
C11_PatternIdBijection ==
    /\ Built =>
          /\ nfa.pattern_count = Len(patterns)
          /\ DOMAIN data = 1..Len(patterns)
    /\ \A k \in 1..Len(reported) :
          /\ reported[k].pattern \in 0..(Len(patterns) - 1)
          /\ reported[k].pattern = raw[k].pattern
          /\ raw[k].len = Len(Toks[raw[k].pattern + 1])
          /\ reported[k].datum = datas[reported[k].pattern + 1]
          /\ calls = 0 => EndsWith(iter.haystack, raw[k].end, Toks[raw[k].pattern + 1])

\* A match of a pattern that is not the first one, with a datum that is not
\* the first one, beside a pattern of zero tokens.
C11_Witness ==
    /\ calls = 0
    /\ \E q \in 1..Len(patterns) : Toks[q] = <<>>
    /\ \E k \in 1..Len(reported) :
          /\ reported[k].pattern >= 1
          /\ raw[k].len >= 1
          /\ reported[k].datum # datas[1]

\* The state the search is in after the first e tokens of hay: the state
\* updates of the loop of standard_find_at, from the start state.
RECURSIVE SearchState(_, _, _)
SearchState(a, hay, e) ==
    IF e = 0 THEN a.start_id
    ELSE next_state_unchecked(a, SearchState(a, hay, e - 1), hay[e])

\* The matches emitted with token-end e, in emission order, as <<id, len>>.
EmittedAt(e) ==
    LET at_e == SelectSeq(raw, LAMBDA m : m.end = e)
    IN  [k \in 1..Len(at_e) |-> <<at_e[k].pattern, at_e[k].len>>]

\* s is an initial part of t.
IsPrefix(s, t) == Len(s) <= Len(t) /\ s = SubSeq(t, 1, Len(s))

\* C12: emission order: over the next() calls of one search, up to the one
\* that returns none, token-ends never decrease, and the matches of one
\* token-end come in the order of the matches list of the state entered there.
C12_EmissionOrder ==
    (pc \in {"search", "search_panic"} /\ calls = 0) =>
        /\ \A k \in 1..(Len(raw) - 1) : raw[k].end <= raw[k + 1].end
        /\ \A e \in 0..Len(iter.haystack) :
              IsPrefix(EmittedAt(e),
                       state(nfa, SearchState(nfa, iter.haystack, e)).matches)

\* Two matches have been emitted at one token-end and one at a later one.
C12_Witness ==
    /\ calls = 0
    /\ \E j, k \in 1..Len(raw) :
          /\ k + 1 < Len(raw) + 1
          /\ j = k + 1
          /\ raw[j].end = raw[k].end
          /\ raw[j].pattern # raw[k].pattern
    /\ \E k \in 1..(Len(raw) - 1) : raw[k].end < raw[k + 1].end

\* C13: match containment: every reported match has
\* 0 <= start() <= end() <= char_count(haystack) + 1.
C13_MatchContainment ==
    \A k \in 1..Len(reported) :
        LET st == Match_start(reported[k], overflow_checks)
        IN  /\ st.ok
            /\ 0 <= st.val
            /\ st.val <= Match_end(reported[k])
            /\ Match_end(reported[k]) <= Len(haystack_str) + 1

\* The data reported by the search so far.
ReportedData == {reported[k].datum : k \in 1..Len(reported)}

\* The tokens of the haystack.
HayToks ==
    LET items == unicode_words_and_syms_indices(haystack_str)
    IN  [i \in 1..Len(items) |-> items[i][2]]

\* Pattern q (1-based) occurs in the haystack tokens.
Occurs(q) == \E e \in 0..Len(HayToks) : EndsWith(HayToks, e, Toks[q])

\* C14: find_all_unique(haystack) is the set of the data of the matches of
\* find_all(haystack): a datum is in it iff one of its patterns occurs; the
\* four-pattern haystack gives {123, 234, 345, 456}.
C14_UniqueIsDataSet ==
    (unique.done /\ calls = 0) =>
        /\ pc = "search" => (~unique.panic /\ unique.set = ReportedData)
        /\ ~unique.panic =>
              \A d \in {datas[q] : q \in 1..Len(datas)} :
                  d \in unique.set <=> \E q \in 1..Len(patterns) : datas[q] = d /\ Occurs(q)
        /\ (/\ patterns = Scenario_iguess.patterns
            /\ haystack_str = Scenario_iguess.haystack)
           => (~unique.panic /\ unique.set = {123, 234, 345, 456})

\* find_all_unique has returned one datum for two matches, and has left out
\* the datum of a pattern that does not occur.
C14_Witness ==
    /\ unique.done
    /\ pc = "search"
    /\ calls = 0
    /\ Cardinality(unique.set) = 1
    /\ Len(reported) >= 2
    /\ \E q \in 1..Len(patterns) : datas[q] \notin unique.set

\* C15: the search cannot fail: up to its first none, next() never panics,
\* and the none comes only after every token has been consumed and every
\* match of every state entered has been returned (no lookup miss stops it
\* early).
C15_SearchCannotFail ==
    calls = 0 =>
        /\ pc # "search_panic"
        /\ Exhausted =>
              /\ iter.state_id = SearchState(nfa, iter.haystack, Len(iter.haystack))
              /\ \A e \in 0..Len(iter.haystack) :
                    EmittedAt(e) = state(nfa, SearchState(nfa, iter.haystack, e)).matches

\* The non-empty token prefixes of the patterns: one trie state each.
TriePrefixes ==
    UNION {{SubSeq(Toks[q], 1, n) : n \in 1..Len(Toks[q])} : q \in 1..Len(patterns)}

\* The largest state id the trie of the patterns needs: ids 0 and 1 are the
\* fail and start states, the others follow.
LargestIdNeeded == 1 + Cardinality(TriePrefixes)

\* The ids stored in the transitions of the automaton, with repetition
\* removed, and the number of transitions.
TransitionTargets ==
    UNION {{nfa.states[i].trans[j][2] : j \in 1..Len(nfa.states[i].trans)} :
             i \in 1..Len(nfa.states)}

RECURSIVE TransitionCount(_)
TransitionCount(states) ==
    IF states = <<>> THEN 0 ELSE Len(Head(states).trans) + TransitionCount(Tail(states))

C17_DuplicatesBothFire ==
    (calls = 0 /\ (Exhausted \/ pc = "search_panic")) =>
        \A i, j \in 1..Len(patterns) :
            (i # j /\ patterns[i] = patterns[j]) =>
                \A e \in 0..Len(iter.haystack) :
                    EndsWith(iter.haystack, e, Toks[i]) =>
                        /\ Cardinality(Emitted(i - 1, e)) = 1
                        /\ Cardinality(Emitted(j - 1, e)) = 1

\* s is an initial part of t and shorter than it.
IsProperPrefix(s, t) == Len(s) < Len(t) /\ s = SubSeq(t, 1, Len(s))

\* C18: prefix patterns: when the tokens of pattern a are a proper prefix of
\* those of pattern b and b occurs ending at token-end e, a match for a is
\* emitted at the token-end where a ends inside that occurrence, and the
\* match for b is emitted after it, at the larger token-end e.
C18_PrefixThenLonger ==
    (calls = 0 /\ (Exhausted \/ pc = "search_panic")) =>
        \A a, b \in 1..Len(patterns) :
            IsProperPrefix(Toks[a], Toks[b]) =>
                \A e \in 1..Len(iter.haystack) :
                    EndsWith(iter.haystack, e, Toks[b]) =>
                        \E ka, kb \in 1..Len(raw) :
                            /\ raw[ka].pattern = a - 1
                            /\ raw[ka].end = e - (Len(Toks[b]) - Len(Toks[a]))
                            /\ raw[kb].pattern = b - 1
                            /\ raw[kb].end = e
                            /\ ka < kb

\* The class the boundary test of UnicodeWordBoundaries::next gives a
\* character: its pair (is_word_character, is_whitespace).
CharClass(c) ==
    IF is_word_character(c) THEN "word"
    ELSE IF is_whitespace(c) THEN "space"
    ELSE "symbol"

\* s[i..j] is a maximal run of characters of one class.
IsMaximalRun(s, i, j) ==
    /\ 1 <= i /\ i <= j /\ j <= Len(s)
    /\ \A k \in i..j : CharClass(s[k]) = CharClass(s[i])
    /\ i = 1 \/ CharClass(s[i - 1]) # CharClass(s[i])
    /\ j = Len(s) \/ CharClass(s[j + 1]) # CharClass(s[j])

\* The <<first, last>> positions of the maximal runs of word characters and
\* of non-word non-whitespace characters of s.
TokenRuns(s) ==
    {r \in (1..Len(s)) \X (1..Len(s)) :
        IsMaximalRun(s, r[1], r[2]) /\ CharClass(s[r[1]]) # "space"}

\* toks lists the runs of TokenRuns(s), once each, in input order: the run
\* with n - 1 runs before it is the n-th token.
ListsRunsInOrder(s, toks) ==
    LET runs == TokenRuns(s)
    IN  /\ Len(toks) = Cardinality(runs)
        /\ \A r \in runs :
              LET n == 1 + Cardinality({q \in runs : q[1] < r[1]})
              IN  n <= Len(toks) /\ toks[n] = SubSeq(s, r[1], r[2])

\* C19: punctuation split: the haystack tokenizer's output is, in input
\* order, the maximal runs of word characters and the maximal runs of
\* non-word non-whitespace characters of the haystack; every token is
\* non-empty and holds no whitespace, whitespace gives no token, and
\* "aaa.bbb,ccc'ddd@eee" gives aaa . bbb , ccc ' ddd @ eee.  The tokens are
\* compared with the runs when find_all has tokenized the haystack; next
\* leaves them as they are.
C19_PunctuationSplit ==
    pc \in {"search", "search_panic"} =>
        /\ ret = "start" =>
              /\ ListsRunsInOrder(haystack_str, iter.haystack)
              /\ unicode_words_and_syms(haystack_str) = iter.haystack
        /\ \A i \in 1..Len(iter.haystack) :
              /\ iter.haystack[i] # <<>>
              /\ \A k \in 1..Len(iter.haystack[i]) : ~is_whitespace(iter.haystack[i][k])
        /\ haystack_str = Str_boundary =>
              iter.haystack = <<<<"a", "a", "a">>, <<".">>, <<"b", "b", "b">>, <<",">>,
                                <<"c", "c", "c">>, <<"'">>, <<"d", "d", "d">>, <<"@">>,
                                <<"e", "e", "e">>>>

\* A haystack of a symbol, whitespace and a symbol again has been split.
C19_Witness ==
    /\ pc = "search"
    /\ ret = "start"
    /\ Len(haystack_str) = 3
    /\ CharClass(haystack_str[1]) = "symbol"
    /\ CharClass(haystack_str[2]) = "space"
    /\ CharClass(haystack_str[3]) = "symbol"
    /\ Len(iter.haystack) = 2

\* The starts of the matches reported so far, in order.
ReportedStarts ==
    [k \in 1..Len(reported) |-> Match_start(reported[k], overflow_checks).val]

\* C20: token offsets: every pair (char_offset, token) of the haystack
\* tokenizer has the token equal to the code points of the haystack from
\* index char_offset on, char_offset counting code points and not bytes;
\* the offsets are strictly increasing; pattern "café" on "café café" is
\* reported with the starts 0 and 5.
C20_OffsetsAreCodePoints ==
    pc \in {"search", "search_panic"} =>
        LET n == Len(iter.haystack)
            char_offset(i) == Offsets[i - 1]
            token(i) == iter.haystack[i]
        IN  /\ \A i \in 1..n :
                  /\ char_offset(i) + Len(token(i)) <= Len(haystack_str)
                  /\ token(i) =
                        SubSeq(haystack_str, char_offset(i) + 1, char_offset(i) + Len(token(i)))
            /\ \A i, j \in 1..n : i < j => char_offset(i) < char_offset(j)
            /\ (haystack_str = Scenario_cafe.haystack /\ patterns = Scenario_cafe.patterns
                /\ Exhausted /\ calls = 0)
                  => ReportedStarts = <<0, 5>>

\* The search of "café café" for "café" has ended with its two matches.
C20_Witness ==
    /\ pc = "search"
    /\ haystack_str = Scenario_cafe.haystack
    /\ patterns = Scenario_cafe.patterns
    /\ Exhausted
    /\ calls = 0
    /\ Len(reported) = 2
    /\ Offsets[1] = 5

\* C21: tokenization determinism: the tokens of the plain tokenizer are the
\* tokens of the tokenizer with offsets, the offsets dropped (compared for
\* the haystack find_all has just tokenized, and for every pattern string).
C21_PlainIsProjection ==
    (pc = "search" /\ ret = "start") =>
        /\ unicode_words_and_syms(haystack_str) = HayToks
        /\ \A q \in 1..Len(patterns) :
              LET items == unicode_words_and_syms_indices(patterns[q])
              IN  unicode_words_and_syms(patterns[q]) = [i \in 1..Len(items) |-> items[i][2]]

\* A haystack with whitespace between and around two tokens was tokenized.
C21_Witness ==
    /\ pc = "search"
    /\ ret = "start"
    /\ \E i \in 1..Len(haystack_str) : is_whitespace(haystack_str[i])
    /\ Len(unicode_words_and_syms(haystack_str)) = 2
    /\ Offsets[1] >= 2

\* The tokens joined with single spaces.
RECURSIVE join_spaces(_)
join_spaces(toks) ==
    IF toks = <<>> THEN <<>>
    ELSE IF Len(toks) = 1 THEN toks[1]
    ELSE toks[1] \o <<" ">> \o join_spaces(Tail(toks))

\* C22: tokenization idempotence: joining the tokens of a string with single
\* spaces and tokenizing the result gives the same tokens again.
C22_RetokenizeJoined ==
    (pc = "search" /\ ret = "start") =>
        unicode_words_and_syms(join_spaces(unicode_words_and_syms(haystack_str)))
            = unicode_words_and_syms(haystack_str)

\* A haystack whose tokens touch, so that the joined string differs from it.
C22_Witness ==
    /\ pc = "search"
    /\ ret = "start"
    /\ Len(unicode_words_and_syms(haystack_str)) >= 2
    /\ join_spaces(unicode_words_and_syms(haystack_str)) # haystack_str
    /\ \A i \in 1..Len(haystack_str) : ~is_whitespace(haystack_str[i])

\* The items an iterator yields when it runs alone, up to its first none or
\* its panic, and which of the two ended it.
RECURSIVE run_alone(_, _, _, _)
run_alone(a, it, dat, checks) ==
    LET n == SimpleFinderIter_next(a, it, dat, checks)
    IN  IF n.kind # "some" THEN [items |-> <<>>, last |-> n.kind]
        ELSE LET rest == run_alone(a, n.iter, dat, checks)
             IN  [items |-> <<n.item>> \o rest.items, last |-> rest.last]

RECURSIVE TrieState(_, _)
TrieState(a, path) ==
    IF path = <<>> THEN a.start_id
    ELSE LET prev == TrieState(a, SubSeq(path, 1, Len(path) - 1))
         IN  IF prev = fail_id THEN fail_id
             ELSE State_next_state(a, prev, path[Len(path)])

\* The non-empty suffixes of path that are prefixes of some pattern, path
\* itself left out when proper is TRUE.
SuffixPrefixes(path, proper) ==
    {SubSeq(path, k, Len(path)) : k \in (IF proper THEN 2 ELSE 1)..Len(path)}
        \cap TriePrefixes

\* The longest of them, the empty path when there is none.
LongestSuffixPrefix(path, proper) ==
    LET c == SuffixPrefixes(path, proper)
    IN  IF c = {} THEN <<>>
        ELSE CHOOSE s \in c : \A t \in c : Len(t) <= Len(s)

\* C24: failure-link invariant: after compilation the failure link of every
\* non-start trie state s differs from s and is the state of the longest
\* proper suffix of s's token path that is a prefix of some pattern, the
\* start state when there is no non-empty one; the start state's failure
\* link is the start state.
C24_FailureLinks ==
    pc = "ready" =>
        /\ state(nfa, nfa.start_id).fail = nfa.start_id
        /\ \A p \in TriePrefixes :
              LET s == TrieState(nfa, p)
              IN  /\ s \notin {fail_id, nfa.start_id}
                  /\ state(nfa, s).fail # s
                  /\ state(nfa, s).fail = TrieState(nfa, LongestSuffixPrefix(p, TRUE))

\* A compiled trie with a state of depth three whose failure link is a state
\* of depth one, and a state of depth two whose failure link is not the start.
C24_Witness ==
    /\ pc = "ready"
    /\ \E p \in TriePrefixes :
          /\ Len(p) = 3
          /\ Len(LongestSuffixPrefix(p, TRUE)) = 1
          /\ state(nfa, TrieState(nfa, p)).fail # nfa.start_id
    /\ \E p \in TriePrefixes :
          /\ Len(p) = 2
          /\ state(nfa, TrieState(nfa, p)).fail # nfa.start_id

\* The outputs build_trie logs in the state of the token path: <<id, token
\* length>> of the patterns with exactly these tokens, in insertion order.
OwnOutputs(path) ==
    LET ids == SelectSeq([q \in 1..Len(patterns) |-> q], LAMBDA q : Toks[q] = path)
    IN  [k \in 1..Len(ids) |-> <<ids[k] - 1, Len(path)>>]

\* The outputs of the patterns whose tokens are a suffix of the token path.
SuffixOutputs(path) ==
    {<<q - 1, Len(Toks[q])>> : q \in {r \in 1..Len(patterns) :
        /\ Len(Toks[r]) <= Len(path)
        /\ Toks[r] = SubSeq(path, Len(path) - Len(Toks[r]) + 1, Len(path))}}

\* The elements of a sequence.
Range(seq) == {seq[k] : k \in 1..Len(seq)}

\* C25: output propagation: after compilation the matches list of every
\* non-start trie state is its own terminal outputs, in insertion order,
\* followed by the final matches list of its failure state; its pattern ids
\* are exactly the patterns whose tokens are a suffix of the state's token
\* path, each with its token length.
C25_OutputPropagation ==
    pc = "ready" =>
        \A p \in TriePrefixes :
            LET s == TrieState(nfa, p)
            IN  /\ state(nfa, s).matches =
                      OwnOutputs(p) \o state(nfa, state(nfa, s).fail).matches
                /\ Range(state(nfa, s).matches) = SuffixOutputs(p)

\* The number of haystack tokens the search has consumed: all of them once
\* next has returned none, else those up to the last match returned.
Consumed == IF ret = "none" THEN Len(iter.haystack) ELSE iter.pos

\* C26: search-state invariant: within one search, up to its first none, the
\* state after the first i haystack tokens is the trie state of the longest
\* suffix of these tokens that is a prefix of some pattern, the start state
\* when that suffix is empty (compared for every i when find_all has made
\* the iterator: next changes neither the tokens nor the automaton); the
\* iterator's state is the one of the tokens it has consumed.
C26_SearchState ==
    (pc = "search" /\ calls = 0) =>
        /\ ret = "start" =>
              \A i \in 0..Len(iter.haystack) :
                  SearchState(nfa, iter.haystack, i) =
                      TrieState(nfa, LongestSuffixPrefix(SubSeq(iter.haystack, 1, i), FALSE))
        /\ iter.state_id = SearchState(nfa, iter.haystack, Consumed)

\* The third token had no transition from the state of depth two the search
\* was in, and a failure link took the search to a state other than start.
C26_Witness ==
    /\ pc = "search"
    /\ calls = 0
    /\ Consumed = 3
    /\ Len(LongestSuffixPrefix(SubSeq(iter.haystack, 1, 2), FALSE)) = 2
    /\ State_next_state(nfa, SearchState(nfa, iter.haystack, 2), iter.haystack[3]) = fail_id
    /\ iter.state_id # nfa.start_id

\* The first pattern (1-based) whose tokens begin with the token path: the
\* pattern whose insertion allocates the path's state.
FirstPattern(path) ==
    CHOOSE q \in 1..Len(patterns) :
        /\ IsPrefix(path, Toks[q])
        /\ \A r \in 1..(q - 1) : ~IsPrefix(path, Toks[r])

\* build_trie allocates the state of path p before the state of path t.
AllocatedBefore(p, t) ==
    \/ FirstPattern(p) < FirstPattern(t)
    \/ FirstPattern(p) = FirstPattern(t) /\ Len(p) < Len(t)

\* The ids of real states other than the fail sentinel and, when
\* with_start is FALSE, the start state.
StateIds(with_start) == (IF with_start THEN 1 ELSE 2)..(Len(nfa.states) - 1)

\* C27: state-id discipline: id 0 is the fail sentinel, never the target of
\* a transition or of a failure link and never the state of a search; id 1
\* is the start state, never the target of a transition; the other states
\* have the ids 2, 3, ... in allocation order; every id stored in a
\* transition, a failure link or a search cursor is below |states|, so
\* neither the validity assertion nor the fail_id assertion fires.
C27_StateIdDiscipline ==
    /\ pc \notin {"new", "panic"} =>
          /\ fail_id = 0 /\ nfa.start_id = 1
          /\ \A i \in 1..Len(nfa.states) :
                /\ nfa.states[i].fail \in StateIds(TRUE)
                /\ \A j \in 1..Len(nfa.states[i].trans) :
                      nfa.states[i].trans[j][2] \in StateIds(FALSE)
          /\ nfa.states[fail_id + 1].trans = <<>>
    /\ pc = "ready" =>
          /\ {TrieState(nfa, p) : p \in TriePrefixes} = StateIds(FALSE)
          /\ \A p, t \in TriePrefixes :
                AllocatedBefore(p, t) => TrieState(nfa, p) < TrieState(nfa, t)
    /\ pc \in {"search", "search_panic"} =>
          /\ iter.state_id \in StateIds(TRUE)
          /\ is_valid(nfa, iter.state_id)

\* A search is in the state allocated last, of a trie of three or more
\* states beside the two reserved ones, after calls past its first none.
C27_Witness ==
    /\ pc = "search"
    /\ Len(nfa.states) >= 5
    /\ iter.state_id = Len(nfa.states) - 1
    /\ calls > 0

\* C28: exhaustion is stable: once next has returned none, every later call
\* of next on the same iterator returns none as well and emits no further
\* match.
C28_ExhaustionStable ==
    [][(pc = "search" /\ ret = "none") =>
          /\ ret' = "none"
          /\ pc' # "search_panic"
          /\ reported' = reported
          /\ raw' = raw]_vars

\* How many times the output m is in the matches list of state sid.
OutputCount(sid, m) == Len(SelectSeq(state(nfa, sid).matches, LAMBDA x : x = m))

\* C29: empty-pattern propagation: when a pattern has zero tokens, after
\* compilation the matches list of every trie state, the start state
\* included, holds that pattern's output (id, 0) exactly once, and the
\* overlapping search run to its end reports it exactly once per token
\* position.
C29_EmptyPatternOnce ==
    \A q \in 1..Len(patterns) :
        Toks[q] = <<>> =>
            /\ pc = "ready" =>
                  \A sid \in StateIds(TRUE) : OutputCount(sid, <<q - 1, 0>>) = 1
            /\ (calls = 0 /\ (Exhausted \/ pc = "search_panic")) =>
                  \A e \in 0..Len(iter.haystack) : Cardinality(Emitted(q - 1, e)) = 1

\* The number of transitions into state sid.
IncomingCount(sid) ==
    Cardinality({ij \in UNION {{<<i, j>> : j \in 1..Len(nfa.states[i].trans)} :
                                  i \in 1..Len(nfa.states)} :
                    nfa.states[ij[1]].trans[ij[2]][2] = sid})

\* C30: trie shape: after build_trie every state's transition list is
\* sorted by token with no duplicate token, no pair was inserted twice (there
\* are as many transitions as states added), there is exactly one
\* non-reserved state per distinct non-empty token prefix of the patterns,
\* |states| = 2 + the number of these prefixes, and each has exactly one
\* incoming transition.
C30_TrieShape ==
    pc \in {"pop", "iter", "walk", "ready"} =>
        /\ \A i \in 1..Len(nfa.states) :
              \A j \in 1..(Len(nfa.states[i].trans) - 1) :
                  str_lt(nfa.states[i].trans[j][1], nfa.states[i].trans[j + 1][1])
        /\ Len(nfa.states) = 2 + Cardinality(TriePrefixes)
        /\ TransitionCount(nfa.states) = Cardinality(TriePrefixes)
        /\ {TrieState(nfa, p) : p \in TriePrefixes} = StateIds(FALSE)
        /\ \A p, t \in TriePrefixes : p # t => TrieState(nfa, p) # TrieState(nfa, t)
        /\ \A sid \in StateIds(FALSE) : IncomingCount(sid) = 1
        /\ IncomingCount(fail_id) = 0 /\ IncomingCount(nfa.start_id) = 0

\* A trie in which a token inserted later sorts before one inserted earlier,
\* and in which two patterns share a state.
C30_Witness ==
    /\ pc = "ready"
    /\ \E i \in 1..Len(nfa.states) :
          \E j \in 1..(Len(nfa.states[i].trans) - 1) :
              nfa.states[i].trans[j][2] > nfa.states[i].trans[j + 1][2]
    /\ Cardinality(TriePrefixes) < TotalWords(patterns)

\* C31: get_two_mut never asserts during compilation: the start state is
\* never in the queue nor the state being processed, so copy_empty_matches
\* is never called on it; whenever the failure walk finds a transition, the
\* state found differs from next, so copy_matches(fail, next) has two
\* different states; and a build over usize ids never panics.
C31_GetTwoMutNeverFires ==
    /\ pc \in {"pop", "iter", "walk"} =>
          \A k \in 1..Len(queue) : queue[k] # nfa.start_id
    /\ pc \in {"iter", "walk"} => id # nfa.start_id
    /\ pc = "walk" =>
          LET f == State_next_state(nfa, fail, cur_transition[1])
          IN  f # fail_id => f # cur_transition[2]
    /\ pc = "panic" => narrow_ids

\* The walk from a state whose failure link is not the start state has
\* followed a link and found the state whose matches copy_matches is about
\* to copy into next, after copy_empty_matches ran on the states popped
\* before.
C31_Witness ==
    /\ pc = "walk"
    /\ id \notin {fail_id, nfa.start_id}
    /\ state(nfa, id).fail # nfa.start_id
    /\ spins >= 1
    /\ State_next_state(nfa, fail, cur_transition[1]) \notin {fail_id, cur_transition[2]}
    /\ \E k \in 1..Len(queue) : queue[k] = cur_transition[2]

====
